---- MODULE Spec2Model ----
(***************************************************************************)
(* Merkle tree construction and inclusion proofs of merkle.rs.             *)
(*                                                                         *)
(* The tree is the struct MerkleTree {data, olen, leafs, height}; from_iter*)
(* and build fill it, gen_proof walks it.  Each loop of the source is      *)
(* modelled one iteration per step, so that the loop indices are visible.  *)
(* Vec indices are 0-based in the source; At and Put translate them to the *)
(* 1-based sequences used here.  A failed index, assert or panic ends the  *)
(* call in one of the "panic_*" control states.                            *)
(*                                                                         *)
(* The hasher (Algorithm::leaf, Algorithm::node) and the digest type live  *)
(* outside merkle.rs.  Digests are sequences of integers: the default      *)
(* digest is the empty sequence, leaf(x) is <<x>>, and node(l, r) is the   *)
(* bracketed concatenation of its operands, so that distinct operand pairs *)
(* give distinct digests and no hash output equals the default digest.     *)
(***************************************************************************)
EXTENDS Integers, Sequences, FiniteSets

VARIABLES
    pc,       \* control state of the call in progress
    input,    \* the items the iterator yields, in order
    hint,     \* iter.size_hint().1 : None or Some(e)
    pos,      \* number of items taken from the iterator so far
    data,     \* MerkleTree.data
    olen,     \* MerkleTree.olen
    leafs,    \* MerkleTree.leafs
    height,   \* MerkleTree.height
    i,        \* build: read index
    j,        \* build: write index
    wlog,     \* build: the indices written by the loop, in order
    pidx,     \* gen_proof: the argument i
    base,     \* gen_proof: base
    step,     \* gen_proof: step
    pj,       \* gen_proof: j
    lemma,    \* gen_proof: lemma
    path,     \* gen_proof: path
    arg,      \* next_pow2: the argument n, as the set of its one bits
    ret,      \* next_pow2: the value returned
    profile   \* next_pow2: build profile (overflow checks on or off)

vars == <<pc, input, hint, pos, data, olen, leafs, height, i, j, wlog,
          pidx, base, step, pj, lemma, path, arg, ret, profile>>

treeVars == <<data, olen, leafs, height>>
buildVars == <<i, j, wlog>>
proofVars == <<pidx, base, step, pj, lemma, path>>
powVars == <<arg, ret, profile>>

----------------------------------------------------------------------------
(* Bounds of the model *)

\* all input sequences over Items of length 0 .. MaxN are tried
MaxN == 5
\* number of distinct item values in those sequences
NumItems == 2
\* an iterator's upper bound exceeds the number of items it yields by 0 .. MaxSlack
MaxSlack == 1
\* next_pow2 is also tried on every n in 0 .. MaxSmall
MaxSmall == 40

\* width of usize in bits
W == 64

\* the input sizes of the test-suite
TestedSizes == {2, 3, 4, 5, 8, 9, 16, 17}

----------------------------------------------------------------------------
(* Option<usize> *)

None == <<>>
Some(e) == <<e>>

(* Vec indexing *)

InBounds(v, k) == k >= 0 /\ k < Len(v)
At(v, k) == v[k + 1]
Put(v, k, x) == [v EXCEPT ![k + 1] = x]
Last(v) == v[Len(v)]

----------------------------------------------------------------------------
(* usize as the set of its one bits, 0 .. W-1 *)

Bit == 0 .. (W - 1)
AllOnes == Bit

Min(S) == CHOOSE x \in S : \A y \in S : x <= y
Max(S) == CHOOSE x \in S : \A y \in S : x >= y

RECURSIVE Pow2(_)
Pow2(b) == IF b = 0 THEN 1 ELSE 2 * Pow2(b - 1)

RECURSIVE BitsFrom(_, _)
BitsFrom(n, b) ==
    IF n = 0 THEN {}
    ELSE (IF n % 2 = 1 THEN {b} ELSE {}) \cup BitsFrom(n \div 2, b + 1)

ToBits(n) == BitsFrom(n, 0)

RECURSIVE ToNat(_)
ToNat(S) ==
    IF S = {} THEN 0
    ELSE LET b == Max(S) IN Pow2(b) + ToNat(S \ {b})

\* n >> k
Shr(S, k) == {b - k : b \in {x \in S : x >= k}}

\* n - 1, wrapping
WrappingDec(S) ==
    IF S = {} THEN AllOnes
    ELSE LET t == Min(S) IN (S \ {t}) \cup {b \in Bit : b < t}

\* n + 1, wrapping
WrappingInc(S) ==
    IF S = AllOnes THEN {}
    ELSE LET z == Min(Bit \ S) IN {b \in S : b > z} \cup {z}

\* the mutant: the 32-bit form of the smear, without n |= n >> 32
SmearNo32(S) ==
    LET n1 == S \cup Shr(S, 1)
        n2 == n1 \cup Shr(n1, 2)
        n3 == n2 \cup Shr(n2, 4)
        n4 == n3 \cup Shr(n3, 8)
    IN  n4 \cup Shr(n4, 16)

\* n |= n >> 1; ... ; n |= n >> 32
Smear(S) ==
    LET n1 == S \cup Shr(S, 1)
        n2 == n1 \cup Shr(n1, 2)
        n3 == n2 \cup Shr(n2, 4)
        n4 == n3 \cup Shr(n3, 8)
        n5 == n4 \cup Shr(n4, 16)
    IN  n5 \cup Shr(n5, 32)

\* the mutant: without the decrement, a power of two is doubled
next_pow2_nodec(S) == WrappingInc(Smear(S))

\* next_pow2 with wrapping arithmetic (overflow checks off)
next_pow2(S) == WrappingInc(Smear(WrappingDec(S)))

\* whether n -= 1 or n + 1 overflows in next_pow2(n)
next_pow2_overflows(S) == S = {} \/ Smear(WrappingDec(S)) = AllOnes

\* trailing_zeros
log2_pow2(n) == IF n = 0 THEN W ELSE Min(ToBits(n))

----------------------------------------------------------------------------
(* The hasher and the digest type *)

\* T::default()
Zero == <<>>

\* Algorithm::leaf
leaf(x) == <<x>>

\* Algorithm::node
node(l, r) == <<-1>> \o l \o <<-2>> \o r \o <<-3>>

----------------------------------------------------------------------------
(* The inputs *)

Items == 1 .. NumItems

\* the slice [1, 2, ..., n]: n pairwise different items
DistinctInput(n) == [k \in 1 .. n |-> k]

Inputs ==
    UNION {[1 .. n -> Items] : n \in 0 .. MaxN}
        \cup {DistinctInput(n) : n \in TestedSizes}

\* Iterator::size_hint().1 of an iterator that yields n items: no upper bound,
\* or an upper bound that is at least n (exactly n for a slice iterator, as in
\* from_hash and from_data; larger for an adaptor such as a filter)
Hints(n) == {None} \cup {Some(n + s) : s \in 0 .. MaxSlack}

Init ==
    /\ pc = "start"
    /\ input \in Inputs
    /\ hint \in Hints(Len(input))
    /\ pos = 0
    /\ data = <<>>
    /\ olen = 0
    /\ leafs = 0
    /\ height = 0
    /\ i = 0
    /\ j = 0
    /\ wlog = <<>>
    /\ pidx = 0
    /\ base = 0
    /\ step = 0
    /\ pj = 0
    /\ lemma = <<>>
    /\ path = <<>>
    /\ arg = {}
    /\ ret = {}
    /\ profile = "release"

----------------------------------------------------------------------------
(* from_iter *)

\* let iter_count = match iter.size_hint().1 { Some(e) => e, None => panic!(..) };
\* assert!(iter_count > 1);
\* let pow = next_pow2(iter_count); let size = 2 * pow - 1;
\* let mut mt = MerkleTree { data: Vec::with_capacity(size), olen: iter_count,
\*                           leafs: pow, height: log2_pow2(size + 1), alg };
FromIter ==
    /\ pc = "start"
    /\ IF hint = None
       THEN /\ pc' = "panic_hint"
            /\ UNCHANGED treeVars
       ELSE LET iter_count == hint[1] IN
            IF ~(iter_count > 1)
            THEN /\ pc' = "panic_count"
                 /\ UNCHANGED treeVars
            ELSE LET pow == ToNat(next_pow2(ToBits(iter_count)))
                     size == 2 * pow - 1
                 IN  /\ data' = <<>>
                     /\ olen' = iter_count
                     /\ leafs' = pow
                     /\ height' = log2_pow2(size + 1)
                     /\ pc' = "hash"
    /\ UNCHANGED <<input, hint, pos, buildVars, proofVars, powVars>>

\* for item in iter { mt.data.push(mt.alg.leaf(item)) }
HashLeaf ==
    /\ pc = "hash"
    /\ pos < Len(input)
    /\ data' = Append(data, leaf(input[pos + 1]))
    /\ pos' = pos + 1
    /\ UNCHANGED <<pc, input, hint, olen, leafs, height, buildVars, proofVars, powVars>>

----------------------------------------------------------------------------
(* build *)

\* let size = 2 * self.leafs - 1;
Size == 2 * leafs - 1

\* for _ in 0..(size - self.olen) { self.data.push(h0.clone()); }
Pad(n) == [k \in 1 .. n |-> Zero]

\* the mutant: the first write lands on the last leaf slot
JInitLow == (Size + 1) \div 2 - 1

\* let mut j: usize = (size + 1) / 2;
JInit == (Size + 1) \div 2

\* mt.build(): the iterator is exhausted; build() pads the leaf level and
\* sets up the loop
BuildFill ==
    /\ pc = "hash"
    /\ pos = Len(input)
    /\ IF Size = Len(data)
       THEN \* debug_assert_ne!(size, self.data.len())
            /\ pc' = "panic_built"
            /\ UNCHANGED <<data, i, j, wlog>>
       ELSE /\ data' = data \o Pad(Size - olen)
            /\ i' = 0
            /\ j' = JInit
            /\ wlog' = <<>>
            /\ pc' = "build"
    /\ UNCHANGED <<input, hint, pos, olen, leafs, height, proofVars, powVars>>

\* the mutant: an absent right child is hashed as the zero digest
ParentZeroRight(l, r) ==
    IF l = Zero THEN Zero ELSE node(l, r)

\* the mutant: no branch for an absent left child
ParentNoAbsent(l, r) ==
    IF r = Zero THEN node(l, l) ELSE node(l, r)

\* the three branches of the loop body: the value written to data[j] for
\* the children l = data[i] and r = data[i + 1]
Parent(l, r) ==
    IF l = Zero THEN Zero
    ELSE IF r = Zero THEN node(l, l)
    ELSE node(l, r)

\* while i < size - 1
BuildCond == i < Size - 1

\* one iteration of the loop: data[i] is read; data[i + 1] is read when
\* data[i] is not h0; data[j] is written; an index outside the Vec panics
BuildStep ==
    /\ pc = "build"
    /\ BuildCond
    /\ IF /\ InBounds(data, i)
          /\ (At(data, i) # Zero => InBounds(data, i + 1))
          /\ InBounds(data, j)
       THEN /\ data' = Put(data, j, Parent(At(data, i), At(data, i + 1)))
            /\ wlog' = Append(wlog, j)
            /\ j' = j + 1
            /\ i' = i + 2
            /\ pc' = "build"
       ELSE /\ pc' = "panic_build_index"
            /\ UNCHANGED <<data, i, j, wlog>>
    /\ UNCHANGED <<input, hint, pos, olen, leafs, height, proofVars, powVars>>

\* the loop ends; build() and from_iter return the tree
BuildReturn ==
    /\ pc = "build"
    /\ ~BuildCond
    /\ pc' = "built"
    /\ UNCHANGED <<input, hint, pos, treeVars, buildVars, proofVars, powVars>>

\* self.data[self.data.len() - 1].clone()
root == At(data, Len(data) - 1)

----------------------------------------------------------------------------
(* gen_proof *)

\* the mutant: every leaf slot of the backing array is accepted
ProofGuardLeafs(idx) == idx < leafs

\* assert!(i < self.olen);
ProofGuard(idx) == idx < olen

\* the indices gen_proof is called with: every slot of the array, and one
\* index past its end
ProofArgs == 0 .. Len(data)

\* the call: the assert, the loop variables, and lemma.push(self.data[i])
GenProof(idx) ==
    /\ pc = "built"
    /\ pidx' = idx
    /\ IF ~ProofGuard(idx)
       THEN /\ pc' = "panic_range"
            /\ UNCHANGED <<base, step, pj, lemma, path>>
       ELSE IF ~InBounds(data, idx)
       THEN /\ pc' = "panic_proof_index"
            /\ UNCHANGED <<base, step, pj, lemma, path>>
       ELSE /\ base' = 0
            /\ step' = leafs
            /\ pj' = idx
            /\ lemma' = <<At(data, idx)>>
            /\ path' = <<>>
            /\ pc' = "proof"
    /\ UNCHANGED <<input, hint, pos, treeVars, buildVars, powVars>>

\* the mutant: the right neighbour is taken even when it is absent
PairNoSubst(b, k) ==
    IF k % 2 = 0 THEN b + k + 1 ELSE b + k - 1

\* let pair = if j & 1 == 0 { if self.data[base + j + 1] == h0 { base + j }
\*                            else { base + j + 1 } } else { base + j - 1 };
Pair(b, k) ==
    IF k % 2 = 0
    THEN IF At(data, b + k + 1) = Zero THEN b + k ELSE b + k + 1
    ELSE b + k - 1

\* the mutant: the direction bit is inverted
PathBitOdd(k) == k % 2 = 1

\* path.push(j & 1 == 0)
PathBit(k) == k % 2 = 0

\* the mutant: the walk stops one level early
ProofCondShort == step > 2

\* while step > 1
ProofCond == step > 1

\* one iteration of the walk
ProofStep ==
    /\ pc = "proof"
    /\ ProofCond
    /\ IF /\ (pj % 2 = 0 => InBounds(data, base + pj + 1))
          /\ InBounds(data, Pair(base, pj))
       THEN /\ lemma' = Append(lemma, At(data, Pair(base, pj)))
            /\ path' = Append(path, PathBit(pj))
            /\ base' = base + step
            /\ step' = step \div 2
            /\ pj' = pj \div 2
            /\ pc' = "proof"
       ELSE /\ pc' = "panic_proof_index"
            /\ UNCHANGED <<base, step, pj, lemma, path>>
    /\ UNCHANGED <<input, hint, pos, treeVars, buildVars, pidx, powVars>>

\* lemma.push(self.root()); Proof::new(lemma, path)
ProofReturn ==
    /\ pc = "proof"
    /\ ~ProofCond
    /\ lemma' = Append(lemma, root)
    /\ pc' = "proved"
    /\ UNCHANGED <<input, hint, pos, treeVars, buildVars, pidx, base, step, pj, path, powVars>>

----------------------------------------------------------------------------
(* The tree: built once, then asked for one proof *)

Next ==
    \/ FromIter
    \/ HashLeaf
    \/ BuildFill
    \/ BuildStep
    \/ BuildReturn
    \/ \E idx \in ProofArgs : GenProof(idx)
    \/ ProofStep
    \/ ProofReturn

Spec == Init /\ [][Next]_vars

----------------------------------------------------------------------------
(* Properties of the tree and of its proofs *)

\* from_iter has returned a tree
Built == pc \in {"built", "proof", "proved", "panic_range"}

\* gen_proof has returned a proof
Proved == pc = "proved"

\* the verifier's fold of a proof: the running digest starts at lemma[0]
\* and takes in lemma[k + 1] on the side path[k] tells
RECURSIVE FoldUpTo(_, _, _)
FoldUpTo(lem, pth, k) ==
    IF k = 0 THEN lem[1]
    ELSE LET cur == FoldUpTo(lem, pth, k - 1) IN
         IF pth[k] THEN node(cur, lem[k + 1]) ELSE node(lem[k + 1], cur)

Fold(lem, pth) == FoldUpTo(lem, pth, Len(pth))

\* C1: for each tested size n, every input of n leaves and every index in
\* [0, olen), folding the lemma of gen_proof along its path gives the root of
\* the tree, which is also the last entry of the lemma.
C1_ProofVerifies ==
    (Proved /\ olen \in TestedSizes) =>
        /\ Len(lemma) = Len(path) + 2
        /\ Fold(lemma, path) = root
        /\ Fold(lemma, path) = Last(lemma)

\* a proof of the last real leaf of the 17-leaf tree, whose path crosses the
\* padding at every level
C1_Witness ==
    /\ Proved
    /\ olen = 17
    /\ pidx = 16
    /\ Fold(lemma, path) = root

\* the parent the padding rule asks for
PaddingRule(l, r) ==
    CASE l = Zero -> Zero
      [] l # Zero /\ r = Zero -> <<-1>> \o l \o <<-2>> \o l \o <<-3>>
      [] OTHER -> <<-1>> \o l \o <<-2>> \o r \o <<-3>>

\* C2: in a returned tree every internal slot data[leafs + k] follows from
\* its children data[2k] and data[2k + 1] by the padding rule (zero for an
\* absent left child, node(L, L) for an absent right child, node(L, R)
\* otherwise); for three leaves the root is node(node(h1, h2), node(h3, h3))
\* and not node(node(h1, h2), node(h3, zero)).
C2_PaddingRule ==
    Built =>
        /\ \A k \in 0 .. (leafs - 2) :
              At(data, leafs + k) = PaddingRule(At(data, 2 * k), At(data, 2 * k + 1))
        /\ olen = 3 =>
              LET h1 == At(data, 0)
                  h2 == At(data, 1)
                  h3 == At(data, 2)
              IN  /\ root = node(node(h1, h2), node(h3, h3))
                  /\ root # node(node(h1, h2), node(h3, Zero))

\* a returned tree of three leaves
C2_Witness ==
    /\ pc = "built"
    /\ olen = 3
    /\ Len(input) = 3
    /\ At(data, 3) = Zero
    /\ At(data, 5) = node(At(data, 2), At(data, 2))

IsPow2(n) == \E e \in 0 .. n : n = Pow2(e)

\* C3: a returned tree has olen equal to the number of input items, leafs
\* the smallest power of two that is at least olen, 2 * leafs - 1 slots,
\* height log2(2 * leafs), the leaf digest of item k in slot k, and its root
\* in the last slot.
C3_Layout ==
    Built =>
        /\ Len(input) >= 2
        /\ olen = Len(input)
        /\ IsPow2(leafs)
        /\ leafs >= olen
        /\ leafs < 2 * olen
        /\ (IsPow2(olen) => leafs = olen)
        /\ Len(data) = 2 * leafs - 1
        /\ Pow2(height) = 2 * leafs
        /\ \A k \in 0 .. (olen - 1) : At(data, k) = leaf(input[k + 1])
        /\ root = data[Len(data)]

\* returned trees of 16 and of 17 leaves exist: the latter has 32 leaf slots
C3_Witness ==
    /\ pc = "built"
    /\ Len(input) = 17
    /\ leafs = 32
    /\ height = 6
    /\ Len(data) = 63

\* C4: gen_proof(i) fails for every i >= olen, the padding leaves in
\* [olen, leafs) included, and returns a proof for every i in [0, olen).
C4_IndexRange ==
    /\ pc \in {"proof", "proved"} => pidx < olen
    /\ pc = "panic_range" => pidx >= olen
    /\ pc # "panic_proof_index"

\* gen_proof has failed on the index of a padding leaf
C4_Witness ==
    /\ pc = "panic_range"
    /\ pidx >= olen
    /\ pidx < leafs
    /\ At(data, pidx) = Zero

\* the size hint is the number of items the iterator yields
ExactHint == hint = Some(Len(input))

\* C5: an input of length 0 or 1, or with no known upper bound on its
\* length, fails before any leaf is hashed and returns no tree; an input of
\* known length n >= 2 returns a tree.
C5_LengthRejected ==
    /\ (Len(input) <= 1 \/ hint = None) => (pos = 0 /\ data = <<>> /\ ~Built)
    /\ (ExactHint /\ Len(input) >= 2) =>
            pc \notin {"panic_hint", "panic_count", "panic_built", "panic_build_index"}

\* C7: a proof has height - 1 path bits and height + 1 = path.len() + 2
\* lemma entries; the first is the digest of the queried leaf, the last the
\* root.
C7_ProofShape ==
    Proved =>
        /\ Len(path) = height - 1
        /\ Len(lemma) = Len(path) + 2
        /\ Len(lemma) = height + 1
        /\ lemma[1] = At(data, pidx)
        /\ lemma[Len(lemma)] = root

\* a proof in the tree of height 6
C7_Witness ==
    /\ Proved
    /\ height = 6
    /\ Len(path) = 5
    /\ Len(lemma) = 7

\* the index of the first slot of level k (the leaves are level 0)
RECURSIVE LevelBase(_)
LevelBase(k) == IF k = 0 THEN 0 ELSE LevelBase(k - 1) + leafs \div Pow2(k - 1)

\* the level of slot s
LevelOf(s) == CHOOSE k \in 0 .. height : LevelBase(k) <= s /\ s < LevelBase(k + 1)

\* the subtree of the node at level k, position p holds no real leaf
FullyPadded(k, p) == p * Pow2(k) >= olen

\* C8: in a returned tree the leaf slots [olen, leafs) are zero, and the
\* node at level k, position p is zero exactly when p * 2^k >= olen; while
\* such a tree is built, the branch for a zero left child is taken only for
\* a pair whose subtree holds no real leaf, so never for one that holds the
\* leaf olen - 1.
C8_ZeroIffPadded ==
    /\ Built =>
          /\ ExactHint
          /\ \A s \in olen .. (leafs - 1) : At(data, s) = Zero
          /\ \A k \in 0 .. (height - 1) :
                \A p \in 0 .. (leafs \div Pow2(k) - 1) :
                    (At(data, LevelBase(k) + p) = Zero) <=> FullyPadded(k, p)
    /\ (pc = "build" /\ ExactHint /\ BuildCond /\ At(data, i) = Zero) =>
          LET k == LevelOf(i)
              p == i - LevelBase(k)
          IN  /\ FullyPadded(k, p)
              /\ p * Pow2(k) > olen - 1

\* the build of the 5-leaf tree is about to take the zero branch for the
\* pair of level-1 nodes over the leaf slots 4 .. 7, of which slot 4 is real
\* and the pair (6, 7) is not
C8_Witness ==
    /\ pc = "build"
    /\ ExactHint
    /\ olen = 5
    /\ i = 6
    /\ At(data, i) = Zero
    /\ At(data, 4) # Zero

\* C9: no entry of a lemma is the zero digest: the node the walk stands on
\* is never zero, a left node records itself when its right neighbour is
\* zero, and the left neighbour of a right node is never zero.
C9_NoZeroInLemma ==
    /\ pc \in {"proof", "proved"} =>
          \A k \in 1 .. Len(lemma) : lemma[k] # Zero
    /\ (pc = "proof" /\ ProofCond) =>
          /\ At(data, base + pj) # Zero
          /\ pj % 2 = 1 => At(data, base + pj - 1) # Zero

\* a proof whose first sibling entry is the leaf itself: the right
\* neighbour of leaf 16 of the 17-leaf tree is a padding leaf
C9_Witness ==
    /\ Proved
    /\ olen = 17
    /\ pidx = 16
    /\ At(data, 17) = Zero
    /\ lemma[2] = lemma[1]
    /\ \A k \in 1 .. Len(lemma) : lemma[k] # Zero

\* the slots the loop has written
Written == {wlog[k] : k \in 1 .. Len(wlog)}

----------------------------------------------------------------------------
(* next_pow2 on its own *)

\* the arguments tried: the small numbers, and over the whole width the
\* numbers with one or two one bits and the numbers 2^(k+1) - 1
PowInputs ==
    {ToBits(n) : n \in 0 .. MaxSmall}
        \cup {{k, m} : k \in Bit, m \in Bit}
        \cup {0 .. k : k \in Bit}

\* overflow checks are on in a debug build and off in a release build
Profiles == {"debug", "release"}

InitPow ==
    /\ pc = "pow_call"
    /\ arg \in PowInputs
    /\ profile \in Profiles
    /\ ret = {}
    /\ input = <<>>
    /\ hint = None
    /\ pos = 0
    /\ data = <<>>
    /\ olen = 0
    /\ leafs = 0
    /\ height = 0
    /\ i = 0
    /\ j = 0
    /\ wlog = <<>>
    /\ pidx = 0
    /\ base = 0
    /\ step = 0
    /\ pj = 0
    /\ lemma = <<>>
    /\ path = <<>>

\* next_pow2(arg): with overflow checks an overflowing step panics,
\* without them it wraps
NextPow2Call ==
    /\ pc = "pow_call"
    /\ IF next_pow2_overflows(arg) /\ profile = "debug"
       THEN /\ pc' = "pow_panic"
            /\ ret' = ret
       ELSE /\ pc' = "pow_ret"
            /\ ret' = next_pow2(arg)
    /\ UNCHANGED <<input, hint, pos, treeVars, buildVars, proofVars, arg, profile>>

NextPow == NextPow2Call

SpecPow == InitPow /\ [][NextPow]_vars

\* the smallest power of two that is at least n, for n > 0: n itself when
\* it has a single one bit, else the bit above its highest one bit
ExpectedPow(S) == IF Cardinality(S) = 1 THEN S ELSE {Max(S) + 1}

PowDone == pc \in {"pow_ret", "pow_panic"}

\* C6 as stated: for every n > 0 of the size type next_pow2(n) returns n
\* when n is a power of two and else the smallest power of two above n, and
\* no step overflows.
C6_FullWidth ==
    (PowDone /\ arg # {}) =>
        /\ pc = "pow_ret"
        /\ ret \subseteq Bit
        /\ ret = ExpectedPow(arg)

\* n <= 2^(W-1)
UpToTopBit(S) == S = {W - 1} \/ \A b \in S : b < W - 1

\* C6, amended: the same for every n with 0 < n <= 2^(W-1).
C6_UpToTopBit ==
    (PowDone /\ arg # {} /\ UpToTopBit(arg)) =>
        /\ pc = "pow_ret"
        /\ ret \subseteq Bit
        /\ ret = ExpectedPow(arg)

\* next_pow2(2^(W-1)) has returned 2^(W-1), and next_pow2(2^(W-2) + 1) too
C6_Witness ==
    /\ pc = "pow_ret"
    /\ arg \in {{W - 1}, {W - 2, 0}}
    /\ ret = {W - 1}

====
